---- MODULE Spec2Model ----
(***************************************************************************)
(* Red-black tree multiset of ezliu/RedBlackTree (src/inc/RedBlackTree.h). *)
(* Nodes live in a heap of cells addressed by positive integers; a tree    *)
(* object is a root pointer and an element counter.  Every public method   *)
(* is one action; the private helpers are operators on a memory record     *)
(* m = [h |-> heap, this |-> the tree object, root |-> its root, ub |-> a  *)
(* NULL or uninitialised pointer was dereferenced, tr |-> the branches     *)
(* taken so far, in order].                                                *)
(***************************************************************************)
EXTENDS Integers, FiniteSets, Sequences, TLC

VARIABLES heap, root, numElems, alive, threw, ub, trace, ref, rejected, inserts, removes

vars == <<heap, root, numElems, alive, threw, ub, trace, ref, rejected, inserts, removes>>
prog == <<heap, root, numElems, alive, threw, ub, trace>>
hist == <<ref, rejected, inserts, removes>>

\* ------------------------------------------------------------------ bounds
\* Values inserted into the single tree of Spec are 1..MaxVal.
MaxVal == 5
\* insert is offered only while size() < MaxSize.
MaxSize == 5
\* Values used by the two-tree specification SpecCopy are 1..CopyMaxVal.
CopyMaxVal == 3
\* insert is offered in SpecCopy only while size() < CopyMaxSize.
CopyMaxSize == 3
\* SpecCalls counts calls; a call is offered only while fewer than MaxCalls were made.
MaxCalls == 7
\* Values used by SpecCalls are 1..CallsMaxVal.
CallsMaxVal == 3
\* SpecAscending inserts the values 1..AscMaxVal, each once, in ascending order.
AscMaxVal == 8
\* SpecCopyDeep inserts the values 1..DeepMaxVal, each twice, in ascending order.
DeepMaxVal == 5
\* Values inserted by the insert-only specification SpecInsert are 1..InsMaxVal.
InsMaxVal == 7
\* SpecInsert offers insert only while fewer than InsMaxCalls inserts were made.
InsMaxCalls == 7
\* Values used by the three-tree specification SpecChain are 1..ChainMaxVal.
ChainMaxVal == 2
\* insert is offered in SpecChain only while size() < ChainMaxSize.
ChainMaxSize == 2
\* Values 1..DrainMaxVal are filled into the tree of SpecDrain.
DrainMaxVal == 11
\* Values 1..ShuffleMaxVal are filled into the tree of SpecShuffle.
ShuffleMaxVal == 8
\* The trees SpecShapes starts from have at most ShapeMaxNodes nodes.
ShapeMaxNodes == 5

NULL == 0
Uninit == -1
Trees == {1, 2}
\* The tree objects of SpecChain; every other specification leaves tree 3 unborn.
ChainTrees == {1, 2, 3}
Values == 1..MaxVal
CopyValues == 1..CopyMaxVal
CallsValues == 1..CallsMaxVal
AscValues == 1..AscMaxVal
DeepValues == 1..DeepMaxVal
ChainValues == 1..ChainMaxVal
InsValues == 1..InsMaxVal
DrainValues == 1..DrainMaxVal
ShuffleValues == 1..ShuffleMaxVal
\* Heap cells: enough for every node of every tree.
AllMaxVals == {MaxVal, CopyMaxVal, CallsMaxVal, AscMaxVal, DeepMaxVal, ChainMaxVal, InsMaxVal,
               DrainMaxVal, ShuffleMaxVal}
Stride == CHOOSE n \in AllMaxVals : \A k \in AllMaxVals : k <= n
AllValues == 1..Stride
Addr == 1..(3 * Stride)

\* ------------------------------------------------------------------ heap
\* operator new: some cell that is not allocated.  The program compares addresses
\* only for equality, so which free cell is returned does not matter to it; the
\* model returns the cell numbered after the tree object and the value to be
\* stored when that cell is free, and the lowest free cell otherwise.
newAddr(h, this, value) ==
    LET hint == (this - 1) * Stride + value
    IN  IF hint \in Addr \ DOMAIN h THEN hint
        ELSE CHOOSE a \in Addr \ DOMAIN h : \A b \in Addr \ DOMAIN h : a <= b

\* A delete that is left out: the cell stays allocated.
freeNodeLeak(h, a) == h

\* operator delete: the cell leaves the heap.
freeNode(h, a) == [x \in DOMAIN h \ {a} |-> h[x]]

\* makeNode that ignores its colour argument: every new node is black.
makeNodeAlwaysBlack(m, value, parent, red) ==
    LET a == newAddr(m.h, m.this, value)
    IN [h |-> m.h @@ (a :> [parent |-> parent, value |-> value, red |-> FALSE,
                             lChild |-> NULL, rChild |-> NULL, count |-> 1]),
        node |-> a]

\* makeNode without line 305: the count is left at zero.
makeNodeNoCount(m, value, parent, red) ==
    LET a == newAddr(m.h, m.this, value)
    IN [h |-> m.h @@ (a :> [parent |-> parent, value |-> value, red |-> red,
                             lChild |-> NULL, rChild |-> NULL, count |-> 0]),
        node |-> a]

makeNode(m, value, parent, red) ==
    LET a == newAddr(m.h, m.this, value)
    IN [h |-> m.h @@ (a :> [parent |-> parent, value |-> value, red |-> red,
                             lChild |-> NULL, rChild |-> NULL, count |-> 1]),
        node |-> a]

RECURSIVE nodesOf(_, _)
nodesOf(h, n) ==
    IF n = NULL THEN {} ELSE {n} \cup nodesOf(h, h[n].lChild) \cup nodesOf(h, h[n].rChild)

recursiveDelete(h, currNode) ==
    LET dead == nodesOf(h, currNode) IN [x \in DOMAIN h \ dead |-> h[x]]

\* ------------------------------------------------------------------ rotation
\* The branch e is recorded as taken.
Log(m, e) == [m EXCEPT !.tr = Append(@, e)]

Crash(m) == [m EXCEPT !.ub = TRUE]

\* rotate without line 339: the moved grandchild keeps its old parent reference.
rotateNoReconnect(m0, child, left) ==
    IF child = NULL \/ m0.h[child].parent = NULL THEN Crash(m0) ELSE
    LET m == Log(m0, "rotate")
        h == m.h
        origParent == h[child].parent
        origGrandparent == h[origParent].parent
        origGrandchild == IF left THEN h[child].lChild ELSE h[child].rChild
        h1 == [h EXCEPT ![child].parent = origGrandparent, ![origParent].parent = child]
        h3 == IF left
              THEN [h1 EXCEPT ![child].lChild = origParent, ![origParent].rChild = origGrandchild]
              ELSE [h1 EXCEPT ![child].rChild = origParent, ![origParent].lChild = origGrandchild]
    IN  IF origGrandparent = NULL THEN [m EXCEPT !.h = h3, !.root = child]
        ELSE IF h3[origGrandparent].lChild = origParent
        THEN [m EXCEPT !.h = [h3 EXCEPT ![origGrandparent].lChild = child]]
        ELSE [m EXCEPT !.h = [h3 EXCEPT ![origGrandparent].rChild = child]]

\* rotate without the first half of line 340: the root reference is not updated when
\* the original parent was the root.
rotateNoRootUpdate(m0, child, left) ==
    IF child = NULL \/ m0.h[child].parent = NULL THEN Crash(m0) ELSE
    LET m == Log(m0, "rotate")
        h == m.h
        origParent == h[child].parent
        origGrandparent == h[origParent].parent
        origGrandchild == IF left THEN h[child].lChild ELSE h[child].rChild
        h1 == [h EXCEPT ![child].parent = origGrandparent, ![origParent].parent = child]
        h2 == IF left
              THEN [h1 EXCEPT ![child].lChild = origParent, ![origParent].rChild = origGrandchild]
              ELSE [h1 EXCEPT ![child].rChild = origParent, ![origParent].lChild = origGrandchild]
        h3 == IF origGrandchild # NULL THEN [h2 EXCEPT ![origGrandchild].parent = origParent] ELSE h2
    IN  IF origGrandparent = NULL THEN [m EXCEPT !.h = h3]
        ELSE IF h3[origGrandparent].lChild = origParent
        THEN [m EXCEPT !.h = [h3 EXCEPT ![origGrandparent].lChild = child]]
        ELSE [m EXCEPT !.h = [h3 EXCEPT ![origGrandparent].rChild = child]]

\* rotate that leaves every link as it was.
rotateNothing(m0, child, left) ==
    IF child = NULL \/ m0.h[child].parent = NULL THEN Crash(m0) ELSE Log(m0, "rotate")

rotate(m0, child, left) ==
    IF child = NULL \/ m0.h[child].parent = NULL THEN Crash(m0) ELSE
    LET m == Log(m0, "rotate")
        h == m.h
        origParent == h[child].parent
        origGrandparent == h[origParent].parent
        origGrandchild == IF left THEN h[child].lChild ELSE h[child].rChild
        h1 == [h EXCEPT ![child].parent = origGrandparent, ![origParent].parent = child]
        h2 == IF left
              THEN [h1 EXCEPT ![child].lChild = origParent, ![origParent].rChild = origGrandchild]
              ELSE [h1 EXCEPT ![child].rChild = origParent, ![origParent].lChild = origGrandchild]
        h3 == IF origGrandchild # NULL THEN [h2 EXCEPT ![origGrandchild].parent = origParent] ELSE h2
    IN  IF origGrandparent = NULL THEN [m EXCEPT !.h = h3, !.root = child]
        ELSE IF h3[origGrandparent].lChild = origParent
        THEN [m EXCEPT !.h = [h3 EXCEPT ![origGrandparent].lChild = child]]
        ELSE [m EXCEPT !.h = [h3 EXCEPT ![origGrandparent].rChild = child]]

grandparent(h, child) ==
    IF child = NULL \/ h[child].parent = NULL THEN NULL ELSE h[h[child].parent].parent

uncle(h, child) ==
    IF grandparent(h, child) = NULL THEN NULL
    ELSE IF h[grandparent(h, child)].rChild = h[child].parent
    THEN h[grandparent(h, child)].lChild
    ELSE h[grandparent(h, child)].rChild

\* ------------------------------------------------------------------ insertion
\* The test of line 378 answering no whatever the root's colour: the root is never
\* recoloured and the call goes on to read the anchor's parent.
rootIsRedNever(m) == FALSE

\* The test root->red of line 378.
rootIsRed(m) == m.h[m.root].red

RECURSIVE restoreTree(_, _)
\* restoreTree that only blackens a red root: no recolouring of other nodes, no rotation.
restoreTreeRootOnly(m, child) ==
    IF m.root = NULL THEN Crash(m)
    ELSE IF m.h[m.root].red
    THEN Log([m EXCEPT !.h = [m.h EXCEPT ![m.root].red = FALSE]], "rootRed")
    ELSE Log(m, "insNone")

\* restoreTree whose opposite-side case recurses at the anchor it was given (lines
\* 397 and 401 with child in the place of origParent).
restoreTreeSameAnchor(m, child) ==
    LET h == m.h IN
    IF m.root = NULL THEN Crash(m)
    ELSE IF rootIsRed(m) THEN Log([m EXCEPT !.h = [h EXCEPT ![m.root].red = FALSE]], "rootRed")
    ELSE IF child = NULL \/ h[child].parent = NULL THEN Crash(m)
    ELSE IF ~h[h[child].parent].red THEN Log(m, "insI")
    ELSE IF ~(h[child].red /\ h[h[child].parent].red) THEN Log(m, "insNone")
    ELSE LET p == h[child].parent
             g == grandparent(h, child)
             u == uncle(h, child)
         IN  IF u # NULL /\ h[u].red
             THEN IF g = NULL THEN Crash(m)
                  ELSE restoreTree(Log([m EXCEPT !.h = [h EXCEPT ![g].red = TRUE, ![u].red = FALSE,
                                                                  ![p].red = FALSE]], "insII"), g)
             ELSE IF g = NULL THEN Crash(m)
             ELSE IF h[g].lChild = p /\ child = h[p].rChild
                  THEN restoreTree(rotate(Log(m, "insIII"), child, TRUE), child)
             ELSE IF h[g].rChild = p /\ child = h[p].lChild
                  THEN restoreTree(rotate(Log(m, "insIII"), child, FALSE), child)
             ELSE LET hc == [h EXCEPT ![p].red = h[g].red, ![g].red = ~h[g].red]
                      mc == Log([m EXCEPT !.h = hc], "insIV")
                  IN  IF p = hc[g].lChild THEN rotate(mc, p, FALSE)
                      ELSE rotate(mc, p, TRUE)

restoreTree(m, child) ==
    LET h == m.h IN
    IF m.root = NULL THEN Crash(m)
    ELSE IF rootIsRed(m) THEN Log([m EXCEPT !.h = [h EXCEPT ![m.root].red = FALSE]], "rootRed")
    ELSE IF child = NULL \/ h[child].parent = NULL THEN Crash(m)
    ELSE IF ~h[h[child].parent].red THEN Log(m, "insI")
    ELSE IF ~(h[child].red /\ h[h[child].parent].red) THEN Log(m, "insNone")
    ELSE LET p == h[child].parent
             g == grandparent(h, child)
             u == uncle(h, child)
         IN  IF u # NULL /\ h[u].red
             THEN IF g = NULL THEN Crash(m)
                  ELSE restoreTree(Log([m EXCEPT !.h = [h EXCEPT ![g].red = TRUE, ![u].red = FALSE,
                                                                  ![p].red = FALSE]], "insII"), g)
             ELSE IF g = NULL THEN Crash(m)
             ELSE IF h[g].lChild = p /\ child = h[p].rChild
                  THEN restoreTree(rotate(Log(m, "insIII"), child, TRUE), p)
             ELSE IF h[g].rChild = p /\ child = h[p].lChild
                  THEN restoreTree(rotate(Log(m, "insIII"), child, FALSE), p)
             ELSE LET hc == [h EXCEPT ![p].red = h[g].red, ![g].red = ~h[g].red]
                      mc == Log([m EXCEPT !.h = hc], "insIV")
                  IN  IF p = hc[g].lChild THEN rotate(mc, p, FALSE)
                      ELSE rotate(mc, p, TRUE)

RECURSIVE recursiveInsert(_, _, _)
recursiveInsert(m, value, currNode) ==
    LET h == m.h IN
    IF m.root = NULL
    THEN LET mk == makeNode(m, value, NULL, FALSE)
         IN  Log([m EXCEPT !.h = mk.h, !.root = mk.node], "newRoot")
    ELSE IF value = h[currNode].value
    THEN Log([m EXCEPT !.h = [h EXCEPT ![currNode].count = @ + 1]], "dup")
    ELSE LET goLeft == value < h[currNode].value
             child == IF goLeft THEN h[currNode].lChild ELSE h[currNode].rChild
         IN  IF child = NULL
             THEN LET mk == makeNode(m, value, currNode, TRUE)
                      hl == IF goLeft THEN [mk.h EXCEPT ![currNode].lChild = mk.node]
                            ELSE [mk.h EXCEPT ![currNode].rChild = mk.node]
                  IN  restoreTree(Log([m EXCEPT !.h = hl], "newNode"), mk.node)
             ELSE recursiveInsert(m, value, child)

\* ------------------------------------------------------------------ lookup
RECURSIVE findNode(_, _, _)
findNode(h, currNode, value) ==
    IF currNode = NULL THEN NULL
    ELSE IF h[currNode].value = value THEN currNode
    ELSE IF value < h[currNode].value THEN findNode(h, h[currNode].lChild, value)
    ELSE findNode(h, h[currNode].rChild, value)

\* count that answers 1 for every value found, whatever its multiplicity.
countAsContains(h, r, value) == IF findNode(h, r, value) = NULL THEN 0 ELSE 1

count(h, r, value) ==
    IF findNode(h, r, value) = NULL THEN 0 ELSE h[findNode(h, r, value)].count

contains(h, r, value) == count(h, r, value) # 0

size(t) == numElems[t]

\* empty() off by one: a tree of one element passes as empty.
emptyBelowTwo(t) == size(t) <= 1

empty(t) == size(t) = 0

\* ------------------------------------------------------------------ deletion
\* swap without lines 529-531: the counts change places, the values stay.
swapCountsOnly(h, left, right) ==
    [h EXCEPT ![left].count = h[right].count, ![right].count = h[left].count]

\* swap without lines 532-534: the values change places, the counts stay.
swapValuesOnly(h, left, right) ==
    [h EXCEPT ![left].value = h[right].value, ![right].value = h[left].value]

swap(h, left, right) ==
    [h EXCEPT ![left].value = h[right].value, ![right].value = h[left].value,
              ![left].count = h[right].count, ![right].count = h[left].count]

RECURSIVE rightmost(_, _)
rightmost(h, n) == IF h[n].rChild # NULL THEN rightmost(h, h[n].rChild) ELSE n

\* inOrderPredecessor without the loop of line 545: the left child itself.
inOrderPredecessorNoLoop(h, node) ==
    IF node = NULL \/ h[node].lChild = NULL THEN NULL ELSE h[node].lChild

inOrderPredecessor(h, node) ==
    IF node = NULL \/ h[node].lChild = NULL THEN NULL ELSE rightmost(h, h[node].lChild)

numNullChildren(h, node) ==
    IF node = NULL THEN 0
    ELSE (IF h[node].lChild = NULL THEN 1 ELSE 0) + (IF h[node].rChild = NULL THEN 1 ELSE 0)

\* The colour test without its NULL alternative: an absent child does not pass as black.
blackOrNullPresentOnly(h, n) == n # NULL /\ ~h[n].red

blackOrNull(h, n) == n = NULL \/ ~h[n].red

\* The colour swap left out.
swapColorsNothing(h, a, b) == h

\* The colour swap without its second statement: b keeps its colour.
swapColorsFirstOnly(h, a, b) == [h EXCEPT ![a].red = h[b].red]

\* The colour swap without its first statement: a keeps its colour.
swapColorsSecondOnly(h, a, b) == [h EXCEPT ![b].red = ~h[b].red]

\* The colour swap of lines 579-580, 592-593 and 600-601: a takes the colour of b and
\* b is toggled.
swapColors(h, a, b) == [h EXCEPT ![a].red = h[b].red, ![b].red = ~h[b].red]

\* The flag left of deleteRestoreTree with the test of line 571 turned round.
fixupLeftInverted(h, parent, notSibling) == h[parent].lChild = notSibling

\* The flag left of deleteRestoreTree, lines 570-574.
fixupLeft(h, parent, notSibling) == h[parent].lChild # notSibling

\* The pointer sibling without line 575: it is set only when parent's left child is
\* not notSibling.
fixupSiblingLeftOnly(h, parent, notSibling) ==
    IF h[parent].lChild # notSibling THEN h[parent].lChild ELSE Uninit

\* The pointer sibling of deleteRestoreTree, lines 569-575; it is declared without a
\* value and keeps none when neither test holds.
fixupSibling(h, parent, notSibling) ==
    IF h[parent].rChild # notSibling THEN h[parent].rChild
    ELSE IF h[parent].lChild # notSibling THEN h[parent].lChild
    ELSE Uninit

\* What one run of lines 569-575 computed and what the case tests of lines 578-604
\* then read, as five entries of the trace: the flag, the side of parent the sibling
\* is on, the side notSibling is on, the colour of parent, the colour of sibling.
fixupFrame(h, parent, notSibling) ==
    <<IF fixupLeft(h, parent, notSibling) THEN "left" ELSE "notLeft",
      IF fixupSibling(h, parent, notSibling) = Uninit THEN "siblingNone"
      ELSE IF fixupSibling(h, parent, notSibling) = h[parent].lChild THEN "siblingLeft"
      ELSE "siblingRight",
      IF h[parent].lChild = notSibling /\ h[parent].rChild = notSibling THEN "deficientBoth"
      ELSE IF h[parent].lChild = notSibling THEN "deficientLeft"
      ELSE IF h[parent].rChild = notSibling THEN "deficientRight"
      ELSE "deficientNone",
      IF h[parent].red THEN "parentRed" ELSE "parentBlack",
      IF fixupSibling(h, parent, notSibling) \in {Uninit, NULL} THEN "siblingAbsent"
      ELSE IF h[fixupSibling(h, parent, notSibling)].red THEN "siblingRed"
      ELSE "siblingBlack">>

RECURSIVE deleteRestoreTree(_, _, _)
deleteRestoreTree(m0, parent, notSibling) ==
    IF parent = NULL THEN Log(m0, "del0") ELSE
    LET h == m0.h
        m == [m0 EXCEPT !.tr = @ \o fixupFrame(h, parent, notSibling)]
        left == fixupLeft(h, parent, notSibling)
        sibling == fixupSibling(h, parent, notSibling)
    IN  IF sibling = Uninit \/ sibling = NULL THEN Crash(m) ELSE
    LET sl == h[sibling].lChild
        sr == h[sibling].rChild
    IN  IF h[sibling].red
        THEN deleteRestoreTree(
                 rotate(Log([m EXCEPT !.h = swapColors(h, sibling, parent)], "delI"),
                        sibling, ~left),
                 parent, notSibling)
        ELSE IF ~h[parent].red /\ ~h[sibling].red /\ blackOrNull(h, sl) /\ blackOrNull(h, sr)
        THEN deleteRestoreTree(Log([m EXCEPT !.h = [h EXCEPT ![sibling].red = TRUE]], "delII"),
                               h[parent].parent, parent)
        ELSE IF h[parent].red /\ blackOrNull(h, sl) /\ blackOrNull(h, sr)
        THEN Log([m EXCEPT !.h = swapColors(h, sibling, parent)], "delIII")
        ELSE IF (~left /\ blackOrNull(h, sr) /\ sl = NULL)
                \/ (~(~left /\ blackOrNull(h, sr)) /\ left /\ blackOrNull(h, sl) /\ sr = NULL)
        THEN Crash(m)
        ELSE IF (~left /\ blackOrNull(h, sr) /\ h[sl].red)
                \/ (left /\ blackOrNull(h, sl) /\ h[sr].red)
        THEN LET child == IF left THEN sr ELSE sl
             IN  deleteRestoreTree(
                     rotate(Log([m EXCEPT !.h = swapColors(h, sibling, child)], "delIV"),
                            child, left),
                     parent, notSibling)
        ELSE IF (~left /\ sr # NULL /\ h[sr].red) \/ (left /\ sl # NULL /\ h[sl].red)
        THEN LET outer == IF ~left THEN sr ELSE sl
             IN  rotate(Log([m EXCEPT !.h = [h EXCEPT ![sibling].red = h[parent].red,
                                                      ![parent].red = h[sibling].red,
                                                      ![outer].red = FALSE]], "delV"),
                        sibling, ~left)
        ELSE Log(m, "delNone")

RECURSIVE rbDelete(_, _)
rbDelete(m, currNode) ==
    LET h == m.h
        nullChildren == numNullChildren(h, currNode)
    IN  IF nullChildren = 0
        THEN LET inOrderPred == inOrderPredecessor(h, currNode)
             IN  rbDelete(Log([m EXCEPT !.h = swap(h, currNode, inOrderPred)], "twoChildren"),
                          inOrderPred)
        ELSE IF nullChildren = 1
        THEN LET child == IF h[currNode].rChild # NULL THEN h[currNode].rChild
                          ELSE h[currNode].lChild
                 p == h[currNode].parent
             IN  IF ~h[currNode].red /\ h[child].red
                 THEN IF p # NULL
                      THEN LET hp == IF h[p].lChild = currNode
                                     THEN [h EXCEPT ![child].red = FALSE, ![child].parent = p,
                                                    ![p].lChild = child]
                                     ELSE [h EXCEPT ![child].red = FALSE, ![child].parent = p,
                                                    ![p].rChild = child]
                           IN  Log([m EXCEPT !.h = freeNode(hp, currNode)], "oneChild")
                      ELSE Log([m EXCEPT !.h = freeNode([h EXCEPT ![child].red = FALSE,
                                                                  ![child].parent = NULL],
                                                        currNode),
                                         !.root = child], "oneChild")
                 ELSE Log(m, "oneChildSkipped")
        ELSE IF currNode = m.root
             THEN Log([m EXCEPT !.h = freeNode(h, m.root), !.root = NULL], "leafRoot")
             ELSE LET parent == h[currNode].parent
                      hd == IF h[parent].lChild = currNode
                            THEN [h EXCEPT ![parent].lChild = NULL]
                            ELSE [h EXCEPT ![parent].rChild = NULL]
                      origColor == h[currNode].red
                      md == [m EXCEPT !.h = freeNode(hd, currNode)]
                  IN  IF ~origColor THEN deleteRestoreTree(Log(md, "blackLeaf"), parent, NULL)
                      ELSE Log(md, "redLeaf")

\* ------------------------------------------------------------------ copy
RECURSIVE copyTree(_, _, _, _)
\* copyTree without line 700: every copied node is black.
copyTreeNoColour(h, this, from, parent) ==
    IF from = NULL THEN [h |-> h, into |-> NULL]
    ELSE LET a == newAddr(h, this, h[from].value)
             h0 == h @@ (a :> [parent |-> parent, value |-> h[from].value, red |-> FALSE,
                               lChild |-> NULL, rChild |-> NULL, count |-> h[from].count])
             cl == copyTree(h0, this, h[from].lChild, a)
             h1 == [cl.h EXCEPT ![a].lChild = cl.into]
             cr == copyTree(h1, this, h[from].rChild, a)
         IN  [h |-> [cr.h EXCEPT ![a].rChild = cr.into], into |-> a]

\* copyTree that copies the pointer instead of the node (a shallow copy).
copyTreeShallow(h, this, from, parent) == [h |-> h, into |-> from]

\* Returns the heap after the copy and the pointer stored into `into`.
copyTree(h, this, from, parent) ==
    IF from = NULL THEN [h |-> h, into |-> NULL]
    ELSE LET a == newAddr(h, this, h[from].value)
             h0 == h @@ (a :> [parent |-> parent, value |-> h[from].value, red |-> h[from].red,
                               lChild |-> NULL, rChild |-> NULL, count |-> h[from].count])
             cl == copyTree(h0, this, h[from].lChild, a)
             h1 == [cl.h EXCEPT ![a].lChild = cl.into]
             cr == copyTree(h1, this, h[from].rChild, a)
         IN  [h |-> [cr.h EXCEPT ![a].rChild = cr.into], into |-> a]

\* ------------------------------------------------------------------ verification
RECURSIVE verifyRedChildAt(_, _)
verifyRedChildAt(h, currNode) ==
    IF currNode = NULL THEN TRUE
    ELSE IF h[currNode].lChild = NULL /\ h[currNode].rChild = NULL THEN TRUE
    ELSE IF ((h[currNode].lChild # NULL /\ h[h[currNode].lChild].red)
             \/ (h[currNode].rChild # NULL /\ h[h[currNode].rChild].red)) /\ h[currNode].red
    THEN FALSE
    ELSE verifyRedChildAt(h, h[currNode].lChild) /\ verifyRedChildAt(h, h[currNode].rChild)

verifyRedChild(t) == verifyRedChildAt(heap, root[t])

RECURSIVE blackHeight(_, _, _)
\* blackHeight without the test of line 442: a red child adds one as a black child does.
blackHeightCountsRed(h, currNode, left) ==
    LET child == IF left THEN h[currNode].lChild ELSE h[currNode].rChild
    IN  IF child = NULL THEN 1 ELSE blackHeight(h, child, left) + 1

blackHeight(h, currNode, left) ==
    LET child == IF left THEN h[currNode].lChild ELSE h[currNode].rChild
    IN  IF child = NULL THEN 1
        ELSE IF h[child].red THEN blackHeight(h, child, left)
        ELSE blackHeight(h, child, left) + 1

RECURSIVE verifyBlackHeightAt(_, _)
verifyBlackHeightAt(h, currNode) ==
    IF currNode = NULL THEN TRUE
    ELSE IF blackHeight(h, currNode, TRUE) # blackHeight(h, currNode, FALSE) THEN FALSE
    ELSE verifyBlackHeightAt(h, h[currNode].lChild) /\ verifyBlackHeightAt(h, h[currNode].rChild)

verifyBlackHeight(t) == verifyBlackHeightAt(heap, root[t])

blackRoot(t) == IF root[t] = NULL THEN TRUE ELSE ~heap[root[t]].red

RECURSIVE parentChildMatchAt(_, _)
parentChildMatchAt(h, currNode) ==
    IF currNode = NULL THEN TRUE
    ELSE IF h[currNode].lChild # NULL /\ h[h[currNode].lChild].parent # currNode THEN FALSE
    ELSE IF h[currNode].rChild # NULL /\ h[h[currNode].rChild].parent # currNode THEN FALSE
    ELSE parentChildMatchAt(h, h[currNode].lChild) /\ parentChildMatchAt(h, h[currNode].rChild)

parentChildMatch(t) == parentChildMatchAt(heap, root[t])

RECURSIVE countSum(_, _)
countSum(h, currNode) ==
    IF currNode = NULL THEN 0
    ELSE h[currNode].count + countSum(h, h[currNode].lChild) + countSum(h, h[currNode].rChild)

verifyCount(t) == countSum(heap, root[t]) = size(t)

verifyProperties(t) ==
    verifyRedChild(t) /\ parentChildMatch(t) /\ verifyBlackHeight(t) /\ blackRoot(t)
    /\ verifyCount(t)

\* ------------------------------------------------------------------ public methods
\* RedBlackTree(const RedBlackTree& other): the object t comes to life as a copy.
\* The branch recursiveDelete takes at the root: "freed" when there was a node to free.
freed(r) == IF r = NULL THEN <<>> ELSE <<"freed">>

CopyConstruct(t, other) ==
    /\ t \notin alive
    /\ other \in alive
    /\ LET c == copyTree(heap, t, root[other], NULL)
       IN  /\ heap' = c.h
           /\ root' = [root EXCEPT ![t] = c.into]
    /\ numElems' = [numElems EXCEPT ![t] = numElems[other]]
    /\ alive' = alive \cup {t}
    /\ threw' = FALSE
    /\ trace' = <<"copyConstruct">>
    /\ UNCHANGED ub

\* clear() without line 222: the element counter keeps its value.
ClearNoSize(t) ==
    /\ t \in alive
    /\ heap' = recursiveDelete(heap, root[t])
    /\ root' = [root EXCEPT ![t] = NULL]
    /\ threw' = FALSE
    /\ trace' = <<"clear">> \o freed(root[t])
    /\ UNCHANGED <<alive, ub, numElems>>

Clear(t) ==
    /\ t \in alive
    /\ heap' = recursiveDelete(heap, root[t])
    /\ numElems' = [numElems EXCEPT ![t] = 0]
    /\ root' = [root EXCEPT ![t] = NULL]
    /\ threw' = FALSE
    /\ trace' = <<"clear">> \o freed(root[t])
    /\ UNCHANGED <<alive, ub>>

\* operator= without the guard of line 185: clear() runs first, then the copy reads
\* other's fields as clear() left them.
operatorAssignNoGuard(s, t, other) ==
    LET hc == recursiveDelete(s.heap, s.root[t])
        rc == [s.root EXCEPT ![t] = NULL]
        nc == [s.numElems EXCEPT ![t] = 0]
        c == copyTree(hc, t, rc[other], NULL)
    IN  [heap |-> c.h,
         root |-> [rc EXCEPT ![t] = c.into],
         numElems |-> [nc EXCEPT ![t] = nc[other]],
         trace |-> s.trace \o <<"assign">> \o freed(s.root[t])]

\* operator= without the clear() of line 186: the old nodes are left behind.
operatorAssignNoClear(s, t, other) ==
    IF t # other
    THEN LET c == copyTree(s.heap, t, s.root[other], NULL)
         IN  [heap |-> c.h,
              root |-> [s.root EXCEPT ![t] = c.into],
              numElems |-> [s.numElems EXCEPT ![t] = s.numElems[other]],
              trace |-> s.trace \o <<"assign">> \o freed(s.root[t])]
    ELSE [s EXCEPT !.trace = Append(@, "selfAssign")]

\* operator= as a function of s = [heap, root, numElems, trace]: clear(), then the
\* same copy, unless this == &other; the result is the state in which *this is returned.
operatorAssign(s, t, other) ==
    IF t # other
    THEN LET hc == recursiveDelete(s.heap, s.root[t])
             c == copyTree(hc, t, s.root[other], NULL)
         IN  [heap |-> c.h,
              root |-> [s.root EXCEPT ![t] = c.into],
              numElems |-> [s.numElems EXCEPT ![t] = s.numElems[other]],
              trace |-> s.trace \o <<"assign">> \o freed(s.root[t])]
    ELSE [s EXCEPT !.trace = Append(@, "selfAssign")]

Assign(t, other) ==
    /\ t \in alive
    /\ other \in alive
    /\ LET s == operatorAssign([heap |-> heap, root |-> root, numElems |-> numElems,
                                trace |-> <<>>], t, other)
       IN  /\ heap' = s.heap
           /\ root' = s.root
           /\ numElems' = s.numElems
           /\ trace' = s.trace
    /\ threw' = FALSE
    /\ UNCHANGED <<alive, ub>>

\* The statement a = b = c: b.operator=(c) returns b, which a.operator= then copies.
AssignChain(a, b, c) ==
    /\ {a, b, c} \subseteq alive
    /\ LET s == operatorAssign(operatorAssign([heap |-> heap, root |-> root,
                                               numElems |-> numElems, trace |-> <<>>],
                                              b, c), a, b)
       IN  /\ heap' = s.heap
           /\ root' = s.root
           /\ numElems' = s.numElems
           /\ trace' = s.trace
    /\ threw' = FALSE
    /\ UNCHANGED <<alive, ub>>

\* ~RedBlackTree(): the nodes are freed and the object is gone.
Destroy(t) ==
    /\ t \in alive
    /\ heap' = recursiveDelete(heap, root[t])
    /\ alive' = alive \ {t}
    /\ root' = [root EXCEPT ![t] = NULL]
    /\ numElems' = [numElems EXCEPT ![t] = 0]
    /\ threw' = FALSE
    /\ trace' = <<"destroy">> \o freed(root[t])
    /\ UNCHANGED ub

\* The program state a call starts in, as the record the methods below transform.
atCall == [heap |-> heap, root |-> root, numElems |-> numElems, ub |-> ub,
           trace |-> <<>>, threw |-> FALSE]

\* insert as a function of the program state s.
insert(s, t, value) ==
    LET m == recursiveInsert([h |-> s.heap, this |-> t, root |-> s.root[t], ub |-> s.ub,
                              tr |-> s.trace], value, s.root[t])
    IN  [heap |-> m.h, root |-> [s.root EXCEPT ![t] = m.root],
         numElems |-> [s.numElems EXCEPT ![t] = @ + 1],
         ub |-> m.ub, trace |-> m.tr, threw |-> FALSE]

\* remove without the test of line 519: the node is deleted whatever its count.
removeAlwaysStructural(s, t, value) ==
    LET toDelete == findNode(s.heap, s.root[t], value)
    IN  IF toDelete = NULL
        THEN [s EXCEPT !.threw = TRUE]
        ELSE LET m == rbDelete([h |-> s.heap, this |-> t, root |-> s.root[t], ub |-> s.ub,
                                tr |-> s.trace], toDelete)
             IN  [heap |-> m.h, root |-> [s.root EXCEPT ![t] = m.root],
                  numElems |-> [s.numElems EXCEPT ![t] = @ - 1],
                  ub |-> m.ub, trace |-> m.tr, threw |-> FALSE]

\* remove without line 521: the element counter is not lowered.
removeNoDecrement(s, t, value) ==
    LET toDelete == findNode(s.heap, s.root[t], value)
    IN  IF toDelete = NULL
        THEN [s EXCEPT !.threw = TRUE]
        ELSE LET m0 == [h |-> s.heap, this |-> t, root |-> s.root[t], ub |-> s.ub,
                        tr |-> s.trace]
                 m == IF s.heap[toDelete].count # 1
                      THEN Log([m0 EXCEPT !.h = [s.heap EXCEPT ![toDelete].count = @ - 1]],
                               "decrement")
                      ELSE rbDelete(m0, toDelete)
             IN  [heap |-> m.h, root |-> [s.root EXCEPT ![t] = m.root],
                  numElems |-> s.numElems,
                  ub |-> m.ub, trace |-> m.tr, threw |-> FALSE]

\* remove as a function of the program state s; threw is set when the exception of
\* line 518 leaves the method.
remove(s, t, value) ==
    LET toDelete == findNode(s.heap, s.root[t], value)
    IN  IF toDelete = NULL
        THEN [s EXCEPT !.threw = TRUE]
        ELSE LET m0 == [h |-> s.heap, this |-> t, root |-> s.root[t], ub |-> s.ub,
                        tr |-> s.trace]
                 m == IF s.heap[toDelete].count # 1
                      THEN Log([m0 EXCEPT !.h = [s.heap EXCEPT ![toDelete].count = @ - 1]],
                               "decrement")
                      ELSE rbDelete(m0, toDelete)
             IN  [heap |-> m.h, root |-> [s.root EXCEPT ![t] = m.root],
                  numElems |-> [s.numElems EXCEPT ![t] = @ - 1],
                  ub |-> m.ub, trace |-> m.tr, threw |-> FALSE]

\* insert without line 202: the element counter is not advanced.
InsertNoCount(t, value) ==
    /\ t \in alive
    /\ LET m == recursiveInsert([h |-> heap, this |-> t, root |-> root[t], ub |-> ub, tr |-> <<>>],
                                 value, root[t])
       IN  /\ heap' = m.h
           /\ trace' = m.tr
           /\ root' = [root EXCEPT ![t] = m.root]
           /\ ub' = m.ub
    /\ threw' = FALSE
    /\ UNCHANGED <<alive, numElems>>

Insert(t, value) ==
    /\ t \in alive
    /\ LET s == insert(atCall, t, value)
       IN  /\ heap' = s.heap
           /\ trace' = s.trace
           /\ root' = s.root
           /\ ub' = s.ub
           /\ numElems' = s.numElems
           /\ threw' = s.threw
    /\ UNCHANGED alive

\* remove with line 521 moved before the check of line 518.
RemoveDecrementFirst(t, value) ==
    /\ t \in alive
    /\ LET toDelete == findNode(heap, root[t], value)
       IN  IF toDelete = NULL
           THEN /\ threw' = TRUE
                /\ trace' = <<>>
                /\ numElems' = [numElems EXCEPT ![t] = @ - 1]
                /\ UNCHANGED <<heap, root, ub>>
           ELSE LET m0 == [h |-> heap, this |-> t, root |-> root[t], ub |-> ub, tr |-> <<>>]
                    m == IF heap[toDelete].count # 1
                         THEN Log([m0 EXCEPT !.h = [heap EXCEPT ![toDelete].count = @ - 1]],
                                  "decrement")
                         ELSE rbDelete(m0, toDelete)
                IN  /\ heap' = m.h
                    /\ root' = [root EXCEPT ![t] = m.root]
                    /\ ub' = m.ub
                    /\ trace' = m.tr
                    /\ numElems' = [numElems EXCEPT ![t] = @ - 1]
                    /\ threw' = FALSE
    /\ UNCHANGED alive

Remove(t, value) ==
    /\ t \in alive
    /\ LET s == remove(atCall, t, value)
       IN  /\ heap' = s.heap
           /\ trace' = s.trace
           /\ root' = s.root
           /\ ub' = s.ub
           /\ numElems' = s.numElems
           /\ threw' = s.threw
    /\ UNCHANGED alive

\* The two statements insert(value); remove(value); run one after the other.
InsertThenRemove(t, value) ==
    /\ t \in alive
    /\ LET s == remove(insert(atCall, t, value), t, value)
       IN  /\ heap' = s.heap
           /\ trace' = s.trace
           /\ root' = s.root
           /\ ub' = s.ub
           /\ numElems' = s.numElems
           /\ threw' = s.threw
    /\ UNCHANGED alive

\* ------------------------------------------------------------------ reference multiset
\* The reference of tree 1: a map value -> multiplicity, and whether it rejected the last call.
RefInsert(value) == ref' = [ref EXCEPT ![value] = @ + 1] /\ rejected' = FALSE

RefRemove(value) ==
    IF ref[value] >= 1
    THEN ref' = [ref EXCEPT ![value] = @ - 1] /\ rejected' = FALSE
    ELSE ref' = ref /\ rejected' = TRUE

\* ------------------------------------------------------------------ specifications
\* RedBlackTree(): tree 1 is constructed empty; tree 2 does not exist yet.
Init ==
    /\ heap = <<>>
    /\ root = [t \in ChainTrees |-> NULL]
    /\ numElems = [t \in ChainTrees |-> 0]
    /\ alive = {1}
    /\ threw = FALSE
    /\ ub = FALSE
    /\ trace = <<>>
    /\ ref = [v \in AllValues |-> 0]
    /\ rejected = FALSE
    /\ inserts = 0
    /\ removes = 0

\* Spec: one tree, driven by insert and remove in any order, beside its reference.
InsertCall(value) ==
    size(1) < MaxSize /\ Insert(1, value) /\ RefInsert(value) /\ UNCHANGED <<inserts, removes>>

RemoveCall(value) ==
    Remove(1, value) /\ RefRemove(value) /\ UNCHANGED <<inserts, removes>>

Next == \E value \in Values : InsertCall(value) \/ RemoveCall(value)

Spec == Init /\ [][Next]_vars

\* SpecClear: the workload of Spec with clear() added; the reference is emptied with it.
ClearCall ==
    /\ Clear(1)
    /\ ref' = [v \in AllValues |-> 0]
    /\ rejected' = FALSE
    /\ UNCHANGED <<inserts, removes>>

NextClear == ClearCall \/ \E value \in Values : InsertCall(value) \/ RemoveCall(value)

SpecClear == Init /\ [][NextClear]_vars

\* SpecCancel: the workload of Spec with the pair insert(v); remove(v) added; the pair
\* leaves the reference as it was.
CancelCall(value) ==
    /\ InsertThenRemove(1, value)
    /\ rejected' = FALSE
    /\ UNCHANGED <<ref, inserts, removes>>

NextCancel == \E value \in Values : InsertCall(value) \/ RemoveCall(value) \/ CancelCall(value)

SpecCancel == Init /\ [][NextCancel]_vars

\* SpecInsert: one tree that is only inserted into, any values in any order.
OnlyInsert(value) ==
    /\ inserts < InsMaxCalls
    /\ Insert(1, value)
    /\ RefInsert(value)
    /\ inserts' = inserts + 1
    /\ UNCHANGED removes

NextInsert == \E value \in InsValues : OnlyInsert(value)

SpecInsert == Init /\ [][NextInsert]_vars

\* SpecCalls: one tree, with the calls counted.
CountedInsert(value) ==
    /\ inserts < MaxCalls
    /\ Insert(1, value)
    /\ inserts' = inserts + 1
    /\ UNCHANGED <<removes, ref, rejected>>

CountedRemove(value) ==
    /\ Remove(1, value)
    /\ removes' = IF threw' THEN removes ELSE removes + 1
    /\ UNCHANGED <<inserts, ref, rejected>>

NextCalls == \E value \in CallsValues : CountedInsert(value) \/ CountedRemove(value)

SpecCalls == Init /\ [][NextCalls]_vars

\* SpecAscending: one tree; the values 1..AscMaxVal are inserted once each, in
\* ascending order, and any of them may be removed at any time.
AscendingInsert ==
    /\ inserts < AscMaxVal
    /\ Insert(1, inserts + 1)
    /\ RefInsert(inserts + 1)
    /\ inserts' = inserts + 1
    /\ UNCHANGED removes

AscendingRemove(value) ==
    /\ Remove(1, value)
    /\ RefRemove(value)
    /\ removes' = IF threw' THEN removes ELSE removes + 1
    /\ UNCHANGED inserts

NextAscending == AscendingInsert \/ \E value \in AscValues : AscendingRemove(value)

SpecAscending == Init /\ [][NextAscending]_vars

\* SpecDrain: one tree; the values 1..DrainMaxVal are inserted in ascending order,
\* and once the first value has been removed the tree is only removed from, any
\* present value next.
DrainInsert ==
    /\ removes = 0
    /\ inserts < DrainMaxVal
    /\ Insert(1, inserts + 1)
    /\ RefInsert(inserts + 1)
    /\ inserts' = inserts + 1
    /\ UNCHANGED removes

DrainRemove(value) ==
    /\ ref[value] >= 1
    /\ Remove(1, value)
    /\ RefRemove(value)
    /\ removes' = removes + 1
    /\ UNCHANGED inserts

NextDrain == DrainInsert \/ \E value \in DrainValues : DrainRemove(value)

SpecDrain == Init /\ [][NextDrain]_vars

\* SpecShuffle: one tree; distinct values are inserted in any order, and once the
\* first value has been removed the tree is only removed from, any present value next.
ShuffleInsert(value) ==
    /\ removes = 0
    /\ ref[value] = 0
    /\ Insert(1, value)
    /\ RefInsert(value)
    /\ inserts' = inserts + 1
    /\ UNCHANGED removes

ShuffleRemove(value) ==
    /\ ref[value] >= 1
    /\ Remove(1, value)
    /\ RefRemove(value)
    /\ removes' = removes + 1
    /\ UNCHANGED inserts

NextShuffle == \E value \in ShuffleValues : ShuffleInsert(value) \/ ShuffleRemove(value)

SpecShuffle == Init /\ [][NextShuffle]_vars

\* SpecShapes: the private helpers that take any linked tree, applied to any linked
\* tree.  shapes(lo, hi, parent) is every search tree holding the values lo..hi once
\* each, in any shape and with any colouring, below the node parent; the node of
\* value v lives in cell v.
RECURSIVE shapes(_, _, _)
shapes(lo, hi, parent) ==
    IF lo > hi THEN {[top |-> NULL, h |-> <<>>]}
    ELSE UNION {{[top |-> r,
                  h |-> L.h @@ R.h
                        @@ (r :> [parent |-> parent, value |-> r, red |-> c,
                                  lChild |-> L.top, rChild |-> R.top, count |-> 1])] :
                    L \in shapes(lo, r - 1, r), R \in shapes(r + 1, hi, r), c \in BOOLEAN} :
                r \in lo..hi}

InitShapes ==
    /\ \E k \in 0..ShapeMaxNodes : \E t \in shapes(1, k, NULL) :
           /\ heap = t.h
           /\ root = [x \in ChainTrees |-> IF x = 1 THEN t.top ELSE NULL]
           /\ numElems = [x \in ChainTrees |-> IF x = 1 THEN k ELSE 0]
    /\ alive = {1}
    /\ threw = FALSE
    /\ ub = FALSE
    /\ trace = <<>>
    /\ ref = [v \in AllValues |-> 0]
    /\ rejected = FALSE
    /\ inserts = 0
    /\ removes = 0

\* rotate(child, left), called as its callers call it: on a node that has a parent,
\* towards the left when it is the right child and towards the right when it is the
\* left child.
RotateCall(child, left) ==
    /\ child \in nodesOf(heap, root[1])
    /\ heap[child].parent # NULL
    /\ left <=> heap[heap[child].parent].rChild = child
    /\ LET m == rotate([h |-> heap, this |-> 1, root |-> root[1], ub |-> ub, tr |-> <<>>],
                       child, left)
       IN  /\ heap' = m.h
           /\ root' = [root EXCEPT ![1] = m.root]
           /\ ub' = m.ub
           /\ trace' = m.tr
    /\ UNCHANGED <<numElems, alive, threw, hist>>

\* verifyBlackHeight(): the answer is recorded as the branch taken.
VerifyBlackHeightCall ==
    /\ trace' = <<IF verifyBlackHeight(1) THEN "heightOk" ELSE "heightBad">>
    /\ UNCHANGED <<heap, root, numElems, alive, threw, ub, hist>>

NextShapes ==
    \/ VerifyBlackHeightCall
    \/ \E child \in 1..ShapeMaxNodes, left \in BOOLEAN : RotateCall(child, left)

SpecShapes == InitShapes /\ [][NextShapes]_vars

\* SpecCopy: two tree objects; tree 2 only ever comes to life as a copy.
CopyInsert(t, value) == size(t) < CopyMaxSize /\ Insert(t, value) /\ UNCHANGED hist

CopyRemove(t, value) == Remove(t, value) /\ UNCHANGED hist

CopyClear(t) == Clear(t) /\ UNCHANGED hist

CopyCopyConstruct(t, other) == CopyConstruct(t, other) /\ UNCHANGED hist

CopyAssign(t, other) == Assign(t, other) /\ UNCHANGED hist

CopyDestroy(t) == Destroy(t) /\ UNCHANGED hist

NextCopy ==
    \E t \in Trees :
        \/ \E value \in CopyValues : CopyInsert(t, value) \/ CopyRemove(t, value)
        \/ CopyClear(t)
        \/ \E other \in Trees : CopyCopyConstruct(t, other) \/ CopyAssign(t, other)
        \/ CopyDestroy(t)

SpecCopy == Init /\ [][NextCopy]_vars

\* SpecChain: three tree objects; trees 2 and 3 come to life as copies, every tree is
\* inserted into and removed from, and trees are assigned singly and in chains.
ChainInsert(t, value) == size(t) < ChainMaxSize /\ Insert(t, value) /\ UNCHANGED hist

ChainRemove(t, value) == Remove(t, value) /\ UNCHANGED hist

ChainCopyConstruct(t, other) == CopyConstruct(t, other) /\ UNCHANGED hist

ChainAssign(t, other) == Assign(t, other) /\ UNCHANGED hist

ChainAssignChain(a, b, c) == AssignChain(a, b, c) /\ UNCHANGED hist

NextChain ==
    \E t \in ChainTrees :
        \/ \E value \in ChainValues : ChainInsert(t, value) \/ ChainRemove(t, value)
        \/ \E other \in ChainTrees : ChainCopyConstruct(t, other) \/ ChainAssign(t, other)
        \/ \E b \in ChainTrees \ {t} : \E c \in ChainTrees \ {t, b} : ChainAssignChain(t, b, c)

SpecChain == Init /\ [][NextChain]_vars

\* SpecCopyDeep: tree 1 is built from the insert sequence 1, 1, 2, 2, ... with removes
\* in between; tree 2 is a copy of it.  While tree 2 lives the trees are only copied,
\* assigned and destroyed.
DeepInsert ==
    /\ alive = {1}
    /\ inserts < 2 * DeepMaxVal
    /\ Insert(1, (inserts \div 2) + 1)
    /\ inserts' = inserts + 1
    /\ UNCHANGED <<removes, ref, rejected>>

DeepRemove(value) ==
    /\ alive = {1}
    /\ Remove(1, value)
    /\ removes' = IF threw' THEN removes ELSE removes + 1
    /\ UNCHANGED <<inserts, ref, rejected>>

DeepCopyConstruct == CopyConstruct(2, 1) /\ UNCHANGED hist

DeepAssign(t, other) == Assign(t, other) /\ UNCHANGED hist

DeepDestroy == alive = Trees /\ Destroy(2) /\ UNCHANGED hist

NextCopyDeep ==
    \/ DeepInsert
    \/ \E value \in DeepValues : DeepRemove(value)
    \/ DeepCopyConstruct
    \/ \E t, other \in Trees : DeepAssign(t, other)
    \/ DeepDestroy

SpecCopyDeep == Init /\ [][NextCopyDeep]_vars

\* ------------------------------------------------------------------ vocabulary of the claims
Range(s) == {s[i] : i \in DOMAIN s}

Nodes(t) == nodesOf(heap, root[t])

Children(h, n) == {h[n].lChild, h[n].rChild} \ {NULL}

valuesOf(h, n) == {h[x].value : x \in nodesOf(h, n)}

\* The black counts of all downward paths from n to an absent leaf.
RECURSIVE pathBlacks(_, _)
pathBlacks(h, n) ==
    IF n = NULL THEN {0}
    ELSE {c + (IF h[n].red THEN 0 ELSE 1) :
              c \in pathBlacks(h, h[n].lChild) \cup pathBlacks(h, h[n].rChild)}

\* The black count of the leftmost (left = TRUE) or rightmost spine below n.
RECURSIVE spineBlacks(_, _, _)
spineBlacks(h, n, left) ==
    LET c == IF left THEN h[n].lChild ELSE h[n].rChild
    IN  IF c = NULL THEN 0 ELSE spineBlacks(h, c, left) + (IF h[c].red THEN 0 ELSE 1)

\* Same shape, and the same value, count and colour at every position.
RECURSIVE SameTree(_, _, _)
SameTree(h, a, b) ==
    IF a = NULL \/ b = NULL THEN a = b
    ELSE /\ h[a].value = h[b].value
         /\ h[a].count = h[b].count
         /\ h[a].red = h[b].red
         /\ SameTree(h, h[a].lChild, h[b].lChild)
         /\ SameTree(h, h[a].rChild, h[b].rChild)

\* Everything a tree object owns: its fields and the content of each of its nodes.
Snapshot(t) ==
    [root |-> root[t], numElems |-> numElems[t], nodes |-> [n \in Nodes(t) |-> heap[n]]]

\* How many times the branch l occurs in the trace tr.
CountIn(tr, l) == Cardinality({i \in DOMAIN tr : tr[i] = l})

\* How many times the branch l was taken by the last call.
Count(l) == CountIn(trace, l)

\* ------------------------------------------------------------------ C1
NoRedRed(t) == \A n \in Nodes(t) : heap[n].red => \A c \in Children(heap, n) : ~heap[c].red

SpinesAgree(t) == \A n \in Nodes(t) : spineBlacks(heap, n, TRUE) = spineBlacks(heap, n, FALSE)

RootBlack(t) == root[t] # NULL => ~heap[root[t]].red

ParentsMirror(t) == \A n \in Nodes(t) : \A c \in Children(heap, n) : heap[c].parent = n

CountsSumToSize(t) == countSum(heap, root[t]) = size(t)

C2_StrictSearchTree ==
    /\ \A n \in Nodes(1) :
          /\ \A v \in valuesOf(heap, heap[n].lChild) : v < heap[n].value
          /\ \A v \in valuesOf(heap, heap[n].rChild) : v > heap[n].value
    /\ \A n1, n2 \in Nodes(1) : n1 # n2 => heap[n1].value # heap[n2].value

\* A two-children removal swapped with the predecessor and the fix-up rotated.
C2_Witness ==
    /\ Len(trace) > 0 /\ trace[1] = "twoChildren"
    /\ "rotate" \in Range(trace)
    /\ Cardinality(Nodes(1)) >= 3

\* ------------------------------------------------------------------ C3
\* C3: after every completed call, for every node all downward paths to an absent
\* leaf (not only the two spines) hold the same number of black nodes.
C3_AllPathsSameBlacks == \A n \in Nodes(1) : Cardinality(pathBlacks(heap, n)) = 1

\* The delete fix-up has just run on a tree that still has an inner path (a left
\* child of a right child).
C3_Witness ==
    /\ "blackLeaf" \in Range(trace)
    /\ \E e \in {"delI", "delIII", "delIV", "delV"} : e \in Range(trace)
    /\ \E n \in Nodes(1) : /\ heap[n].parent # NULL
                           /\ heap[heap[n].parent].parent # NULL
                           /\ heap[heap[n].parent].lChild = n
                           /\ heap[heap[heap[n].parent].parent].rChild = heap[n].parent

\* ------------------------------------------------------------------ C4
\* C4: the tree refines the reference multiset: after every call count(v) is the
\* reference multiplicity of v, contains(v) holds exactly when it is non-zero, and
\* remove raised exactly when the reference rejected.
C4_RefinesMultiset ==
    /\ \A v \in Values :
          /\ count(heap, root[1], v) = ref[v]
          /\ contains(heap, root[1], v) <=> ref[v] # 0
    /\ threw <=> rejected

\* The reference has just rejected a remove while some value is held twice.
C4_Witness == rejected /\ threw /\ \E v \in Values : ref[v] >= 2

\* ------------------------------------------------------------------ C5
\* C5: remove(v) with count(v) = 0 raises and leaves the tree unchanged: the same
\* root, the same content of every node, the same size().
C5_FailedRemoveChangesNothing ==
    [][\A v \in Values :
          (RemoveCall(v) /\ count(heap, root[1], v) = 0)
              => (threw' /\ heap' = heap /\ root' = root /\ numElems' = numElems)]_vars

\* A remove has just raised on a tree of at least three nodes.
C5_Witness == threw /\ trace = <<>> /\ Cardinality(Nodes(1)) >= 3

\* ------------------------------------------------------------------ C6
\* C6: in every reachable state size() is the number of insert calls minus the number
\* of remove calls that did not raise, and is never negative; an insert raises it by
\* one, a remove that succeeds lowers it by one, a remove that raises leaves it.
C6_SizeIsInsertsMinusRemoves ==
    /\ [](size(1) = inserts - removes /\ size(1) >= 0)
    /\ [][\A v \in CallsValues :
            /\ CountedInsert(v) => size(1)' = size(1) + 1
            /\ (CountedRemove(v) /\ ~threw') => size(1)' = size(1) - 1
            /\ (CountedRemove(v) /\ threw') => size(1)' = size(1)]_vars

\* Inserts, removes that succeeded and a remove that raised have all happened.
C6_Witness == inserts >= 3 /\ removes >= 2 /\ threw

\* ------------------------------------------------------------------ C7
\* C7: remove(v) with count(v) >= 1 does not raise, lowers count(v) by exactly one and
\* leaves the count of every other value as it was.
C7_RemoveLowersOneCount ==
    [][\A v \in Values :
          (RemoveCall(v) /\ count(heap, root[1], v) >= 1)
              => /\ ~threw'
                 /\ count(heap', root'[1], v) = count(heap, root[1], v) - 1
                 /\ \A w \in Values \ {v} :
                       count(heap', root'[1], w) = count(heap, root[1], w)]_vars

\* A node with two children was removed: the swap, then the predecessor, a black
\* leaf, was deleted with fix-up; some value is held twice.
C7_Witness ==
    /\ "twoChildren" \in Range(trace)
    /\ "blackLeaf" \in Range(trace)
    /\ \E v \in Values : count(heap, root[1], v) >= 2

\* ------------------------------------------------------------------ C8
\* C8: insert(v) never raises, raises count(v) by exactly one and leaves the count of
\* every other value as it was.
C8_InsertRaisesOneCount ==
    [][\A v \in Values :
          InsertCall(v)
              => /\ ~threw'
                 /\ count(heap', root'[1], v) = count(heap, root[1], v) + 1
                 /\ \A w \in Values \ {v} :
                       count(heap', root'[1], w) = count(heap, root[1], w)]_vars

\* A new node was inserted and the fix-up rotated twice (opposite side, then same side).
C8_Witness ==
    /\ Len(trace) > 0 /\ trace[1] = "newNode"
    /\ "insIII" \in Range(trace) /\ "insIV" \in Range(trace)

\* ------------------------------------------------------------------ C9
\* C9: a copy (construction or assignment) has the size, the counts and a node graph
\* of the same shape, values, counts and colours as its source, a root without
\* parent and correct parent references, and passes verifyProperties() when the
\* source does.
C9_CopyIsFaithful ==
    [][\A t \in Trees : \A other \in Trees \ {t} :
          ((t = 2 /\ other = 1 /\ DeepCopyConstruct) \/ DeepAssign(t, other))
              => /\ size(t)' = size(other)'
                 /\ \A v \in DeepValues :
                       count(heap', root'[t], v) = count(heap', root'[other], v)
                 /\ SameTree(heap', root'[t], root'[other])
                 /\ root'[t] # NULL => heap'[root'[t]].parent = NULL
                 /\ ParentsMirror(t)'
                 /\ verifyProperties(other) => verifyProperties(t)']_vars

\* Tree 2 has just been copy-constructed from a tree of five nodes that has a red
\* node, a node of count two and a node with a grandparent.
C9_Witness ==
    /\ trace = <<"copyConstruct">>
    /\ alive = Trees
    /\ Cardinality(Nodes(2)) = 5
    /\ \E n \in Nodes(2) : heap[n].red
    /\ \E n \in Nodes(2) : heap[n].count = 2
    /\ \E n \in Nodes(2) : heap[n].parent # NULL /\ heap[heap[n].parent].parent # NULL

\* ------------------------------------------------------------------ C10
\* C10: the two trees share no node, and an insert, remove or clear on one of them
\* leaves the other's size(), nodes, shape, colours and counts unchanged.
C10_CopiesAreIndependent ==
    [][/\ (Nodes(1) \cap Nodes(2) = {})'
       /\ \A t \in Trees : \A other \in (Trees \ {t}) \cap alive :
             ((\E v \in CopyValues : CopyInsert(t, v) \/ CopyRemove(t, v)) \/ CopyClear(t))
                 => Snapshot(other)' = Snapshot(other)]_vars

\* Both trees are alive and non-empty, and they no longer hold the same values.
C10_Witness ==
    /\ alive = Trees
    /\ root[1] # NULL /\ root[2] # NULL
    /\ \E v \in CopyValues : count(heap, root[1], v) # count(heap, root[2], v)

\* ------------------------------------------------------------------ C11
\* Every allocated cell is a node of some living tree.
NoLeak == DOMAIN heap = UNION {Nodes(t) : t \in alive}

\* C11: an assignment dst = src onto a destination that holds elements leaves dst with
\* the counts and the size of src, leaves src unchanged and leaves none of the old
\* nodes of dst behind; and a = b = c leaves a, b and c with the counts and the size
\* that c had, c unchanged.
C11_AssignReplacesContent ==
    [][/\ \A t \in ChainTrees : \A other \in ChainTrees \ {t} :
             (ChainAssign(t, other) /\ root[t] # NULL)
                 => /\ \A v \in ChainValues :
                          count(heap', root'[t], v) = count(heap, root[other], v)
                    /\ size(t)' = size(other)
                    /\ Snapshot(other)' = Snapshot(other)
                    /\ NoLeak'
       /\ \A a \in ChainTrees : \A b \in ChainTrees \ {a} : \A c \in ChainTrees \ {a, b} :
             ChainAssignChain(a, b, c)
                 => /\ \A t \in {a, b, c} :
                          /\ \A v \in ChainValues :
                                count(heap', root'[t], v) = count(heap, root[c], v)
                          /\ size(t)' = size(c)
                    /\ Snapshot(c)' = Snapshot(c)
                    /\ NoLeak']_vars

\* a = b = c has just run on three living trees, both destinations held nodes before,
\* and the trees now hold two nodes each.
C11_Witness ==
    /\ trace = <<"assign", "freed", "assign", "freed">>
    /\ alive = ChainTrees
    /\ \A t \in ChainTrees : Cardinality(Nodes(t)) = 2

\* ------------------------------------------------------------------ C12
\* C12: self-assignment t = t changes nothing: the same root, the same nodes with the
\* same content (shape, colours, counts), the same size(); the tree is not cleared.
C12_SelfAssignIsNoOp ==
    [][\A t \in Trees :
          DeepAssign(t, t)
              => /\ heap' = heap /\ root' = root /\ numElems' = numElems
                 /\ Snapshot(t)' = Snapshot(t)
                 /\ (root[t] # NULL => ~empty(t)')]_vars

\* A tree of five nodes has just been assigned to itself.
C12_Witness ==
    /\ trace = <<"selfAssign">>
    /\ \E t \in alive : Cardinality(Nodes(t)) = 5 /\ size(t) > 5

\* ------------------------------------------------------------------ C13
\* C13: clear() makes the tree empty: size() = 0, empty(), no root, count(v) = 0 for
\* every v, no node left allocated; and the tree is usable again: from then on it is in
\* the state of a freshly constructed tree, refines the emptied reference multiset and
\* passes verifyProperties() after every later call.
C13_ClearEmptiesAndReuses ==
    /\ [][ClearCall
            => /\ size(1)' = 0 /\ empty(1)' /\ root'[1] = NULL
               /\ \A v \in Values : count(heap', root'[1], v) = 0
               /\ heap' = <<>> /\ root' = [t \in ChainTrees |-> NULL]
               /\ numElems' = [t \in ChainTrees |-> 0] /\ ~ub' /\ ~threw']_vars
    /\ [](/\ verifyProperties(1)
          /\ \A v \in Values : count(heap, root[1], v) = ref[v]
          /\ threw <=> rejected)

\* clear() has just run on a tree that held nodes.
C13_Witness == trace = <<"clear", "freed">> /\ root[1] = NULL /\ empty(1)

\* ------------------------------------------------------------------ C14
\* C14: insert(v) followed at once by remove(v) does not raise and leaves size() and
\* the count of every value as they were before the insert; on an empty tree it
\* leaves the tree empty again: no root, size() = 0, no node allocated.
C14_InsertThenRemoveCancels ==
    [][\A v \in Values :
          CancelCall(v)
              => /\ ~threw'
                 /\ size(1)' = size(1)
                 /\ \A w \in Values : count(heap', root'[1], w) = count(heap, root[1], w)
                 /\ (root[1] = NULL => (root'[1] = NULL /\ size(1)' = 0 /\ heap' = <<>>))]_vars

\* The pair has just run: the insert made a new node and rotated, the remove then deleted
\* that value from a node with two children.
C14_Witness ==
    /\ "newNode" \in Range(trace) /\ "rotate" \in Range(trace)
    /\ "twoChildren" \in Range(trace)
    /\ verifyProperties(1)

\* ------------------------------------------------------------------ C15
\* C15: in every state empty() is true exactly when there is no root; and whenever
\* every inserted occurrence has been removed again, in whatever order and however
\* often the tree was filled and drained before, the root is absent, size() = 0,
\* empty() is true and verifyProperties() holds, as it does in every state.
C15_EmptyIffNoRoot ==
    /\ empty(1) <=> root[1] = NULL
    /\ (inserts = removes \/ \A v \in AscValues : ref[v] = 0)
           => (root[1] = NULL /\ size(1) = 0 /\ empty(1))
    /\ verifyProperties(1)

\* All the values were inserted, in increasing order, and the last of them, the root,
\* has just been removed.
C15_Witness ==
    /\ inserts = AscMaxVal /\ removes = AscMaxVal
    /\ trace = <<"leafRoot">>
    /\ root[1] = NULL /\ empty(1)

\* ------------------------------------------------------------------ C16
\* C16: in every state every node has count >= 1, the allocated nodes are exactly the
\* nodes of the tree and they are as many as the values v with count(v) >= 1; an insert
\* of a present value allocates no node, an insert of an absent value allocates one, a
\* remove that brings a count to 0 frees exactly one node, any other remove frees none.
C16_OneNodePerPresentValue ==
    /\ [](/\ \A n \in Nodes(1) : heap[n].count >= 1
          /\ DOMAIN heap = Nodes(1)
          /\ Cardinality(Nodes(1))
                 = Cardinality({v \in Values : count(heap, root[1], v) >= 1}))
    /\ [][\A v \in Values :
            /\ (InsertCall(v) /\ count(heap, root[1], v) >= 1) => DOMAIN heap' = DOMAIN heap
            /\ (InsertCall(v) /\ count(heap, root[1], v) = 0)
                   => /\ DOMAIN heap \subseteq DOMAIN heap'
                      /\ Cardinality(DOMAIN heap') = Cardinality(DOMAIN heap) + 1
            /\ (RemoveCall(v) /\ count(heap, root[1], v) = 1)
                   => /\ DOMAIN heap' \subseteq DOMAIN heap
                      /\ Cardinality(DOMAIN heap') = Cardinality(DOMAIN heap) - 1
            /\ (RemoveCall(v) /\ count(heap, root[1], v) # 1)
                   => DOMAIN heap' = DOMAIN heap]_vars

\* A node with one child has just been freed while another node holds a count of two.
C16_Witness ==
    /\ "oneChild" \in Range(trace)
    /\ \E n \in Nodes(1) : heap[n].count = 2
    /\ Cardinality(Nodes(1)) >= 3

\* ------------------------------------------------------------------ C17
\* The number of nodes on the longest path from n down to a leaf.
RECURSIVE height(_, _)
height(h, n) ==
    IF n = NULL THEN 0
    ELSE LET l == height(h, h[n].lChild)
             r == height(h, h[n].rChild)
         IN  1 + (IF l > r THEN l ELSE r)

\* C17: after n inserts into an empty tree, of any values in any order, the height h
\* of the tree satisfies h <= 2*log2(n+1), that is 2^h <= (n+1)^2; it holds with the
\* number of nodes in the place of n as well.
C17_HeightIsLogarithmic ==
    /\ size(1) = inserts
    /\ 2 ^ height(heap, root[1]) <= (inserts + 1) * (inserts + 1)
    /\ 2 ^ height(heap, root[1]) <= (Cardinality(Nodes(1)) + 1) * (Cardinality(Nodes(1)) + 1)

\* Six distinct values were inserted and the tree is as high as six nodes allow.
C17_Witness ==
    /\ inserts = 6
    /\ Cardinality(Nodes(1)) = 6
    /\ height(heap, root[1]) = 4

\* ------------------------------------------------------------------ C18
\* C18: insert(v) of a present value and remove(v) of a value with count(v) > 1 change
\* only the count field of the node of v, by one, and size(): the root, every other
\* field of every node (shape, colours, parent references, values, the other counts)
\* and the set of nodes stay as they were, and no fix-up or rotation runs.
C18_CountOnlyMutations ==
    [][\A v \in Values :
          LET n == findNode(heap, root[1], v)
          IN  /\ (InsertCall(v) /\ count(heap, root[1], v) >= 1)
                     => /\ heap' = [heap EXCEPT ![n].count = @ + 1]
                        /\ root' = root
                        /\ size(1)' = size(1) + 1
                        /\ trace' = <<"dup">>
              /\ (RemoveCall(v) /\ count(heap, root[1], v) > 1)
                     => /\ heap' = [heap EXCEPT ![n].count = @ - 1]
                        /\ root' = root
                        /\ size(1)' = size(1) - 1
                        /\ trace' = <<"decrement">>]_vars

\* A remove has just lowered a count in a tree of four nodes, one of them red.
C18_Witness ==
    /\ trace = <<"decrement">>
    /\ Cardinality(Nodes(1)) = 4
    /\ \E n \in Nodes(1) : heap[n].red

\* ------------------------------------------------------------------ C19
\* C19: a node with exactly one child is black and its child is red, in every state, so
\* whenever rbDelete reaches such a node, found by remove or as the predecessor after a
\* swap, the guarded splice runs: the branch that skips it is never taken, and after the
\* splice the node is unlinked and freed (the nodes left are as many as size()).
C19_OneChildSpliceAlwaysRuns ==
    /\ \A n \in Nodes(1) :
          numNullChildren(heap, n) = 1
              => (~heap[n].red /\ \A c \in Children(heap, n) : heap[c].red)
    /\ "oneChildSkipped" \notin Range(trace)
    /\ "oneChild" \in Range(trace)
          => (DOMAIN heap = Nodes(1) /\ Cardinality(Nodes(1)) = size(1)
              /\ size(1) = inserts - removes)

\* A node with two children was removed: after the swap the predecessor had one child
\* and was spliced out.
C19_Witness ==
    /\ trace = <<"twoChildren", "oneChild">>
    /\ Cardinality(Nodes(1)) >= 4

\* ------------------------------------------------------------------ C20
\* The places of the trace where a run of the delete fix-up recorded its flag.
FixupRuns == {i \in DOMAIN trace : trace[i] \in {"left", "notLeft"}}

\* In every run of the fix-up, sibling is the child of parent that is not notSibling.
SiblingIsOtherChild ==
    \A i \in FixupRuns :
        \/ trace[i + 1] = "siblingLeft" /\ trace[i + 2] = "deficientRight"
        \/ trace[i + 1] = "siblingRight" /\ trace[i + 2] = "deficientLeft"

\* C20, as it holds: in every run of the delete fix-up sibling is the child of parent
\* that is not notSibling, and the flag left is true exactly when the sibling is
\* parent's left child, that is when the deficient side (the side of notSibling) is
\* parent's right child.
C20_LeftMeansSiblingIsLeft ==
    /\ SiblingIsOtherChild
    /\ \A i \in FixupRuns :
          (trace[i] = "left") <=> (trace[i + 1] = "siblingLeft" /\ trace[i + 2] = "deficientRight")

\* C20 as stated: sibling is the other child, and the flag left is true exactly when
\* the deficient side (the side of notSibling) is parent's left child.
C20_AsStated ==
    /\ SiblingIsOtherChild
    /\ \A i \in FixupRuns : (trace[i] = "left") <=> (trace[i + 2] = "deficientLeft")

\* One remove of a black leaf ran the fix-up at least twice, and in one of the runs the
\* deficient side was parent's left child and the flag was not set.
C20_Witness ==
    /\ "blackLeaf" \in Range(trace)
    /\ Cardinality(FixupRuns) >= 2
    /\ \E i \in FixupRuns : trace[i] = "notLeft" /\ trace[i + 2] = "deficientLeft"

\* ------------------------------------------------------------------ C21
\* The five cases of the delete fix-up.
FixupCases == {"delI", "delII", "delIII", "delIV", "delV"}

\* C21: in every run of the delete fix-up with a non-null parent, exactly one child slot
\* of parent equals notSibling, sibling is the other child and a present node, no null
\* or unset pointer is dereferenced, and one of the five cases is taken: the chain of
\* tests never falls through.
C21_FixupFindsSiblingAndCase ==
    /\ ~ub
    /\ "delNone" \notin Range(trace)
    /\ \A i \in FixupRuns :
          /\ i + 5 \in DOMAIN trace
          /\ \/ trace[i + 1] = "siblingLeft" /\ trace[i + 2] = "deficientRight"
             \/ trace[i + 1] = "siblingRight" /\ trace[i + 2] = "deficientLeft"
          /\ trace[i + 4] \in {"siblingRed", "siblingBlack"}
          /\ trace[i + 5] \in FixupCases

\* One remove ran the fix-up at three anchors or more, with the deficient side on the
\* left in one run and on the right in another.
C21_Witness ==
    /\ "blackLeaf" \in Range(trace)
    /\ Cardinality(FixupRuns) >= 3
    /\ \E i, j \in FixupRuns : trace[i + 2] = "deficientLeft" /\ trace[j + 2] = "deficientRight"

\* ------------------------------------------------------------------ C22
\* C22: no run of the insert fix-up dereferences a null pointer: the anchor is a
\* present node, its parent is present whenever the parent's colour is read (a red root
\* is handled first), the grandparent is present whenever anchor and parent are both
\* red; the fix-up always ends in one of its cases, and the root is black afterwards.
C22_InsertFixupReadsNoNull ==
    (trace # <<>> /\ trace[1] \in {"newRoot", "dup", "newNode"}) =>
        /\ ~ub
        /\ "insNone" \notin Range(trace)
        /\ RootBlack(1)
        /\ trace[1] = "newNode" =>
               /\ Len(trace) >= 2
               /\ trace[Len(trace)] \in {"rootRed", "insI", "rotate"}
               /\ \A i \in DOMAIN trace :
                      trace[i] = "insII" =>
                          /\ i + 1 \in DOMAIN trace
                          /\ trace[i + 1] \in {"rootRed", "insI", "insII", "insIII", "insIV"}

\* The red-uncle recolouring reached the root: the next run of the fix-up was
\* anchored at the root, which has no parent, and stopped at the red-root test.
C22_Witness ==
    /\ ~ub
    /\ trace = <<"newNode", "insII", "rootRed">>
    /\ Cardinality(Nodes(1)) >= 4

\* ------------------------------------------------------------------ C23
\* C23: every insert and every remove ends after a bounded number of fix-up runs.  With
\* H the height of the tree before the call: the red-uncle case runs at most H/2
\* times (two levels up each time), the opposite-side and same-side cases at most once;
\* Case II of the delete fix-up runs at most H times (one level up each time),
\* Cases I and IV at most once each; the red-root test, the black-parent test, Case
\* III and the null parent end the call, and so does the rotation of Case V and of
\* the same-side case.
C23_FixupsAreBounded ==
    [][/\ 2 * CountIn(trace', "insII") <= height(heap, root[1])
       /\ CountIn(trace', "insIII") <= 1
       /\ CountIn(trace', "insIV") <= 1
       /\ CountIn(trace', "delII") <= height(heap, root[1])
       /\ CountIn(trace', "delI") <= 1
       /\ CountIn(trace', "delIV") <= 1
       /\ \A i \in DOMAIN trace' :
              /\ trace'[i] \in {"rootRed", "insI", "delIII", "del0"} => i = Len(trace')
              /\ trace'[i] \in {"insIV", "delV"}
                     => (i + 1 = Len(trace') /\ trace'[i + 1] = "rotate")]_vars

\* One remove moved the anchor up twice by Case II, up to the root.
C23_Witness ==
    /\ Count("delII") >= 2
    /\ trace[Len(trace)] = "del0"

\* ------------------------------------------------------------------ C24
\* C24: after Case I the fix-up is run again at the same anchor, and that run reads a
\* red parent and a present, black sibling: it takes Case III, IV or V, never Case I
\* again and never Case II.
C24_AfterCaseOneSiblingIsBlack ==
    \A i \in DOMAIN trace :
        trace[i] = "delI" =>
            /\ i + 7 \in DOMAIN trace
            /\ trace[i + 1] = "rotate"
            /\ trace[i + 2] = trace[i - 5]
            /\ trace[i + 4] = trace[i - 3]
            /\ trace[i + 5] = "parentRed"
            /\ trace[i + 6] = "siblingBlack"
            /\ trace[i + 7] \in {"delIII", "delIV", "delV"}

\* Case I was followed by Case IV at the same anchor.
C24_Witness ==
    \E i \in DOMAIN trace :
        /\ trace[i] = "delI"
        /\ i + 7 \in DOMAIN trace
        /\ trace[i + 7] = "delIV"

\* ------------------------------------------------------------------ C25
\* C25: after Case IV the fix-up is run again at the same anchor; that run reads a
\* black sibling, takes Case V, rotates, and the fix-up ends there.
C25_AfterCaseFourComesCaseFive ==
    \A i \in DOMAIN trace :
        trace[i] = "delIV" =>
            /\ Len(trace) = i + 8
            /\ trace[i + 1] = "rotate"
            /\ trace[i + 2] = trace[i - 5]
            /\ trace[i + 4] = trace[i - 3]
            /\ trace[i + 6] = "siblingBlack"
            /\ trace[i + 7] = "delV"
            /\ trace[i + 8] = "rotate"

\* Case II moved the anchor up, and Case IV then Case V ended the fix-up there.
C25_Witness ==
    /\ "delII" \in Range(trace)
    /\ "delIV" \in Range(trace)
    /\ trace[Len(trace) - 1] = "delV"

\* ------------------------------------------------------------------ C26
\* C26: when the insert fix-up takes the opposite-side case it rotates the anchor up
\* through its parent, and the run anchored at the original parent takes the
\* same-side case: one colour swap, one rotation at the grandparent, and the fix-up
\* ends.
C26_OppositeSideThenSameSide ==
    \A i \in DOMAIN trace :
        trace[i] = "insIII" =>
            /\ Len(trace) = i + 3
            /\ trace[i + 1] = "rotate"
            /\ trace[i + 2] = "insIV"
            /\ trace[i + 3] = "rotate"
            /\ NoRedRed(1)
            /\ SpinesAgree(1)

\* The red-uncle case moved the anchor up two levels, where the opposite-side case
\* and then the same-side case ran.
C26_Witness == trace = <<"newNode", "insII", "insIII", "rotate", "insIV", "rotate">>

\* ------------------------------------------------------------------ C27
\* The values of the tree below n, from left to right.
RECURSIVE inOrder(_, _)
inOrder(h, n) ==
    IF n = NULL THEN <<>>
    ELSE inOrder(h, h[n].lChild) \o <<h[n].value>> \o inOrder(h, h[n].rChild)

\* C27: a call rotate(child, left) on a node with a parent, towards the side opposite
\* to the one it hangs on, keeps the in-order sequence of the values of the whole
\* tree, changes no colour, value or count, leaves the parent reference of every
\* present child equal to its holder, puts child above its original parent on the
\* side of the rotation, links child into the slot of the grandparent that held the
\* original parent, and makes child the root, without a parent, exactly when the
\* original parent had no parent.
C27_RotateKeepsOrderAndLinks ==
    [][trace' = <<"rotate">> =>
          /\ ~ub'
          /\ \E child \in Nodes(1) :
                 /\ heap[child].parent # NULL
                 /\ heap'[heap[child].parent].parent = child
          /\ \A child \in Nodes(1) :
                 (heap[child].parent # NULL /\ heap'[heap[child].parent].parent = child) =>
                     LET origParent == heap[child].parent
                         origGrandparent == heap[origParent].parent
                     IN  /\ inOrder(heap', root'[1]) = inOrder(heap, root[1])
                         /\ DOMAIN heap' = DOMAIN heap
                         /\ \A n \in DOMAIN heap :
                                /\ heap'[n].red = heap[n].red
                                /\ heap'[n].value = heap[n].value
                                /\ heap'[n].count = heap[n].count
                         /\ \A n \in nodesOf(heap', root'[1]) :
                                \A c \in Children(heap', n) : heap'[c].parent = n
                         /\ heap[origParent].rChild = child => heap'[child].lChild = origParent
                         /\ heap[origParent].lChild = child => heap'[child].rChild = origParent
                         /\ heap'[child].parent = origGrandparent
                         /\ origGrandparent # NULL =>
                                /\ root'[1] = root[1]
                                /\ heap[origGrandparent].lChild = origParent
                                       => heap'[origGrandparent].lChild = child
                                /\ heap[origGrandparent].rChild = origParent
                                       => heap'[origGrandparent].rChild = child
                         /\ (root'[1] = child /\ heap'[child].parent = NULL)
                                <=> origGrandparent = NULL]_vars

\* A rotation has just run on a tree of five nodes, and moved a subtree from the
\* rotated node to its original parent: the root has a child whose inner child is
\* present.
C27_Witness ==
    /\ trace = <<"rotate">>
    /\ Cardinality(Nodes(1)) = 5
    /\ \E c \in Children(heap, root[1]) :
           \/ heap[root[1]].rChild = c /\ heap[c].lChild # NULL
           \/ heap[root[1]].lChild = c /\ heap[c].rChild # NULL

\* ------------------------------------------------------------------ C28
\* C28, as it holds: when remove deletes a node that has two present children, the
\* in-order predecessor has no right child, so after the swap rbDelete recurses once,
\* on a node with at most one child; the cell that is unlinked and freed is the
\* predecessor's, and the node that was found stays in the tree and holds the
\* predecessor's value and count.  The swap itself changes nothing but values and
\* counts; when no fix-up runs the found node keeps its parent, its colour and its
\* right link, and its left link too unless the predecessor was its left child.
C28_PredecessorIsFreedInstead ==
    [][\A v \in AllValues :
          LET target == findNode(heap, root[1], v)
              pred == inOrderPredecessor(heap, target)
          IN  (ref'[v] < ref[v] /\ trace' # <<>> /\ trace'[1] = "twoChildren") =>
                  /\ pred # NULL
                  /\ heap[pred].rChild = NULL
                  /\ CountIn(trace', "twoChildren") = 1
                  /\ trace'[2] \in {"oneChild", "redLeaf", "blackLeaf"}
                  /\ DOMAIN heap' = DOMAIN heap \ {pred}
                  /\ target \in Nodes(1)'
                  /\ heap'[target].value = heap[pred].value
                  /\ heap'[target].count = heap[pred].count
                  /\ swap(heap, target, pred)[target]
                         = [heap[target] EXCEPT !.value = heap[pred].value,
                                                !.count = heap[pred].count]
                  /\ "blackLeaf" \notin Range(trace') =>
                         /\ heap'[target].parent = heap[target].parent
                         /\ heap'[target].red = heap[target].red
                         /\ heap'[target].rChild = heap[target].rChild
                         /\ heap[target].lChild # pred
                                => heap'[target].lChild = heap[target].lChild]_vars

\* C28 as stated: after such a remove the found node has the parent, the colour and the
\* two links it had before, and holds the predecessor's value and count.
C28_AsStated ==
    [][\A v \in AllValues :
          LET target == findNode(heap, root[1], v)
              pred == inOrderPredecessor(heap, target)
          IN  (ref'[v] < ref[v] /\ trace' # <<>> /\ trace'[1] = "twoChildren") =>
                  /\ heap[pred].rChild = NULL
                  /\ CountIn(trace', "twoChildren") = 1
                  /\ DOMAIN heap' = DOMAIN heap \ {pred}
                  /\ heap'[target].value = heap[pred].value
                  /\ heap'[target].count = heap[pred].count
                  /\ heap'[target].parent = heap[target].parent
                  /\ heap'[target].red = heap[target].red
                  /\ heap'[target].lChild = heap[target].lChild
                  /\ heap'[target].rChild = heap[target].rChild]_vars

\* A node with two children was removed, its predecessor was a black leaf, the fix-up
\* rotated, and a node with two children now holds its value twice.
C28_Witness ==
    /\ trace # <<>>
    /\ trace[1] = "twoChildren"
    /\ trace[2] = "blackLeaf"
    /\ "rotate" \in Range(trace)
    /\ \E n \in Nodes(1) : heap[n].count = 2 /\ numNullChildren(heap, n) = 0

\* ------------------------------------------------------------------ C29
\* C29: one insert rotates at most twice and one remove at most three times; a
\* rotation is made only by the opposite-side and same-side cases of the insert
\* fix-up and by Cases I, IV and V of the delete fix-up, every other case recolours.
C29_FewRotationsPerCall ==
    /\ (trace # <<>> /\ trace[1] \in {"newRoot", "dup", "newNode"}) => Count("rotate") <= 2
    /\ Count("rotate") <= 3
    /\ \A i \in DOMAIN trace :
          trace[i] = "rotate" =>
              /\ i > 1
              /\ trace[i - 1] \in {"insIII", "insIV", "delI", "delIV", "delV"}

\* One remove rotated three times: Case I, Case IV and Case V in a row.
C29_Witness ==
    /\ "blackLeaf" \in Range(trace)
    /\ Count("rotate") = 3

\* ------------------------------------------------------------------ C30
\* Black-height uniformity in the full sense: below every node of tree t all downward
\* paths to an absent leaf hold the same number of black nodes.
UniformBlackHeight(t) == \A n \in Nodes(t) : Cardinality(pathBlacks(heap, n)) = 1

\* C30: on any search tree with any colouring, verifyBlackHeight() answers true
\* exactly when the tree has black-height uniformity in the full sense, though it
\* compares only the two spines below every node; blackHeight is the black count of
\* the spine (a red child adds 0, a black child 1) plus 1 for the absent child that ends
\* it.
C30_SpineCheckIsFullCheck ==
    /\ verifyBlackHeight(1) <=> UniformBlackHeight(1)
    /\ trace = <<"heightOk">> => UniformBlackHeight(1)
    /\ trace = <<"heightBad">> => ~UniformBlackHeight(1)
    /\ \A n \in Nodes(1) : \A left \in BOOLEAN :
          blackHeight(heap, n, left) = spineBlacks(heap, n, left) + 1

\* verifyBlackHeight() answered false on a tree whose root has equal spines: the
\* difference was found at a node further down.
C30_Witness ==
    /\ trace = <<"heightBad">>
    /\ root[1] # NULL
    /\ blackHeight(heap, root[1], TRUE) = blackHeight(heap, root[1], FALSE)
    /\ Cardinality({n \in Nodes(1) : ~heap[n].red}) >= 3

====
